---- MODULE Spec2Model ----
(***************************************************************************)
(* EyeCare frontend: the Application Shell (src/src/App.jsx) and the       *)
(* Diagnostic Session Controller (src/src/components/                      *)
(* LiveDiagnosticScanner.jsx) as one state machine.                        *)
(*                                                                         *)
(* The browser runs one handler at a time; every `await` is a suspension   *)
(* point.  Each action below is one handler run from its start (or from    *)
(* the await it resumes at) to its next await or its end, followed by the  *)
(* React commit it causes (mounting, unmounting or re-rendering the        *)
(* scanner, which runs the effect bodies and cleanups of the scanner).     *)
(* Network and SDK calls in flight are kept in the state; they resolve in  *)
(* any order, each with any outcome the remote side can produce.           *)
(***************************************************************************)
EXTENDS Integers, Sequences, FiniteSets, TLC

\* ------------------------------------------------------------------ bounds
\* SpecDeep runs to these:
MaxSends  == 2   \* user-initiated sends (text submits and image attaches)
MaxMounts == 2   \* scanner instances the backend asks for
MaxPolls  == 3   \* ticks of the polling interval, over all instances
\* Spec and SpecReinvoke stop at these:
SmallSends  == 1
SmallMounts == 1
SmallPolls  == 1
MaxReinvoke == 1 \* extra setup invocations by the host (SpecReinvoke only)
MidPolls == 2    \* ticks of the polling interval in SpecPoll

\* ------------------------------------------------------------ input domains
NoRoom  == "none"                  \* null / undefined room identifier
NoType  == "null"                  \* visionTask.type = null
NoImage == "null"                  \* image_id null / undefined / ""
ChatRoomIds == {"abc123"}          \* call_id of an activating chat response
RoomIds == {"abc123", "room_b"}    \* call_id of a token response
TestTypes == {"plr_test", NoType}  \* functional_test_type of a chat response
ImageIds  == {"img_9", NoImage}    \* image_id of an upload response
TypedTexts == {<<" ">>, <<" ", "h", " ">>}   \* what the user may type
NoId == "none"                     \* a ref not initialised yet / no user_id
RandomIds == {"patient_1", "patient_2"}   \* `patient_${Math.floor(...)}`
OneId == {"patient_1"}             \* a host whose Math.random() is fixed

\* ------------------------------------------------------------ pure helpers
RECURSIVE TrimLeft(_)
\* String.prototype.trim, leading part
TrimLeft(s) ==
  IF s = <<>> THEN <<>>
  ELSE IF Head(s) = " " THEN TrimLeft(Tail(s)) ELSE s

RECURSIVE TrimRight(_)
\* String.prototype.trim, trailing part
TrimRight(s) ==
  IF s = <<>> THEN <<>>
  ELSE IF s[Len(s)] = " " THEN TrimRight(SubSeq(s, 1, Len(s) - 1)) ELSE s

\* userMessage?.trim()
Trim(s) == TrimRight(TrimLeft(s))

\* `x || 'Vision Assessment'` for the response's functional_test_type
TypeOrDefault(t) == IF t = NoType THEN "Vision Assessment" ELSE t

\* a sequence without its i-th element
RemoveAt(s, i) == SubSeq(s, 1, i - 1) \o SubSeq(s, i + 1, Len(s))

\* a chat turn; text is the literal content of a user's text turn
Turn(role, kind, text) == [role |-> role, kind |-> kind, text |-> text]

VARIABLES
  \* --- Application Shell (App.jsx useState)
  messages,      \* ConversationStore: sequence of turns
  inputValue,    \* text box content
  isProcessing,
  isUploading,
  visionTask,    \* [active, type]
  \* --- requests of the shell in flight
  chatReqs,      \* POST /chat in flight, in issue order
  uploadReq,     \* POST /upload in flight
  \* --- the mounted LiveDiagnosticScanner (inst = 0: none mounted)
  scanner,
  \* --- setup-effect closures (mounted, myClient, myCall and the SDK objects
  \*     they created) that are not cleaned up yet or still have a call in
  \*     flight, of every instance, in creation order
  effects,
  finished,      \* the closures cleaned up and run to their end, as a set
  \* --- suspended work of the poll effect
  pollReqs,      \* GET /diagnostic-results in flight
  timers,        \* pending setTimeout(() => onComplete(data), 1000)
  \* --- host and history
  strictMode,    \* the host re-invokes effects on mount (React StrictMode)
  limit,         \* the bounds of the run: [sends, mounts, polls, ids, rooms]
  insts,         \* per scanner instance: what it has done so far
  lateOps,       \* operations done for an instance after its unmount
  nSends,
  nPolls

vars == <<messages, inputValue, isProcessing, isUploading, visionTask,
          chatReqs, uploadReq, scanner, effects, finished, pollReqs, timers,
          strictMode, limit, insts, lateOps, nSends, nPolls>>

appVars == <<messages, inputValue, isProcessing, isUploading, visionTask,
             chatReqs, uploadReq, nSends>>
scanVars == <<scanner, effects, finished, insts>>

\* ------------------------------------------------- scanner: component state
\* LiveDiagnosticScanner's useState/useRef values right after construction;
\* capType is the visionTask.type the current onComplete prop closes over;
\* pollInterval is the interval id of the current poll effect run (0: none);
\* setups and reqs count the setup invocations and the credential requests
\* since the last teardown; startType is the visionTaskType of the mount.
NewScanner(i, type) ==
  [inst |-> i,
   client |-> FALSE, call |-> FALSE, currentCallId |-> NoRoom,
   setupState |-> "Initializing", error |-> FALSE,
   pollInterval |-> 0, pollActive |-> FALSE,
   capType |-> type,
   setups |-> 0, reqs |-> 0,
   stablePatientId |-> NoId,
   startType |-> type]

NoScanner == NewScanner(0, NoType)

\* what outlives the renders of one instance (the hasFetchedToken ref) and
\* the instance's history: the call_id of the chat response that mounted it,
\* the credential requests it issued, the onComplete calls made for it
NewInst(chatCall) ==
  [hasFetchedToken |-> FALSE,
   chatCallId |-> chatCall, tokenReqs |-> 0, completes |-> 0,
   completeSeen |-> FALSE, pollAfterComplete |-> FALSE,
   intervalsSet |-> 0, clearsByCleanup |-> 0,
   depRuns |-> 0,
   pollFailed |-> FALSE, pollAfterFailure |-> FALSE]

\* one run of the setup effect body: its closure variables and the SDK
\* objects it creates.  pc is where setupStream is suspended.
NewEffect(i, issued, userId) ==
  [inst |-> i, user_id |-> userId,
   mounted |-> TRUE, myClient |-> FALSE, myCall |-> FALSE,
   room |-> NoRoom, pc |-> IF issued THEN "fetch" ELSE "done",
   connected |-> FALSE, joined |-> FALSE, camera |-> FALSE,
   raced |-> FALSE, err |-> "none",
   nDisable |-> 0, nLeave |-> 0, nDisconnect |-> 0]

\* setupStream up to its first await, given hasFetchedToken.current:
\* whether GET /generate-video-token is issued, and the latch afterwards
SetupStreamNoLatch(latch) == [issued |-> TRUE, latch |-> TRUE]

SetupStream(latch) ==
  IF latch THEN [issued |-> FALSE, latch |-> latch]
  ELSE [issued |-> TRUE, latch |-> TRUE]

\* the setup effect's cleanup, on the closure it belongs to: the releases
\* take effect at once on what the SDK objects hold; raced records that a
\* join() or camera.enable() of the same call was still in flight
CleanupLeaveAlways(e) ==
  [e EXCEPT !.mounted = FALSE,
            !.nDisable = @ + 1, !.nLeave = @ + 1,
            !.camera = FALSE, !.joined = FALSE,
            !.raced = e.pc \in {"join", "enable"},
            !.nDisconnect = IF e.myClient THEN @ + 1 ELSE @,
            !.connected = IF e.myClient THEN FALSE ELSE @]

Cleanup(e) ==
  [e EXCEPT !.mounted = FALSE,
            !.nDisable = IF e.myCall THEN @ + 1 ELSE @,
            !.camera = IF e.myCall THEN FALSE ELSE @,
            !.nLeave = IF e.myCall THEN @ + 1 ELSE @,
            !.joined = IF e.myCall THEN FALSE ELSE @,
            !.raced = e.myCall /\ e.pc \in {"join", "enable"},
            !.nDisconnect = IF e.myClient THEN @ + 1 ELSE @,
            !.connected = IF e.myClient THEN FALSE ELSE @]

\* The scanner-side state as one value, so that a commit can run several
\* effect bodies and cleanups in a row.
Bundle == [scanner |-> scanner, effects |-> effects, insts |-> insts,
           random |-> NoId]

Retired(e) == ~e.mounted /\ e.pc = "done"

\* what a retired closure leaves behind: what its SDK objects still hold and
\* the releases its cleanup invoked
Summary(e) ==
  [myClient |-> e.myClient, myCall |-> e.myCall,
   connected |-> e.connected, joined |-> e.joined, camera |-> e.camera,
   nDisable |-> e.nDisable, nLeave |-> e.nLeave,
   nDisconnect |-> e.nDisconnect]

\* the scanner-side state after a step: what the bundle holds, with the
\* closures that are cleaned up and have run to their end moved to finished
Settle(b) ==
  /\ scanner' = b.scanner
  /\ effects' = SelectSeq(b.effects, LAMBDA e : ~Retired(e))
  /\ finished' = finished \cup
       {Summary(b.effects[k]) :
          k \in {j \in DOMAIN b.effects : Retired(b.effects[j])}}
  /\ insts' = b.insts

\* the poll effect's body
PollEffectBody(b, type) ==
  LET sc == b.scanner IN
  IF sc.client /\ sc.call /\ sc.currentCallId # NoRoom
  THEN [b EXCEPT !.scanner.pollInterval = b.insts[sc.inst].intervalsSet + 1,
                 !.scanner.pollActive = TRUE,
                 !.scanner.capType = type,
                 !.insts[sc.inst].intervalsSet = @ + 1]
  ELSE [b EXCEPT !.scanner.pollInterval = 0,
                 !.scanner.pollActive = FALSE,
                 !.scanner.capType = type]

\* the poll effect's cleanup
PollEffectCleanup(b) ==
  LET sc == b.scanner IN
  IF sc.pollInterval # 0
  THEN [b EXCEPT !.scanner.pollActive = FALSE,
                 !.insts[sc.inst].clearsByCleanup = @ + 1]
  ELSE b

\* the poll effect re-run on a change of its dependencies
PollEffectRerun(b, type) == PollEffectBody(PollEffectCleanup(b), type)

\* the setup effect's body: a new closure, and setupStream started
SetupEffectBody(b) ==
  LET sc == b.scanner
      s  == SetupStream(b.insts[sc.inst].hasFetchedToken)
      n  == IF s.issued THEN 1 ELSE 0
  IN [b EXCEPT !.insts[sc.inst].hasFetchedToken = s.latch,
               !.scanner.setupState = IF s.issued THEN "Fetching" ELSE @,
               !.scanner.setups = @ + 1,
               !.scanner.reqs = @ + n,
               !.effects = Append(@, NewEffect(sc.inst, s.issued,
                            IF s.issued THEN sc.stablePatientId ELSE NoId)),
               !.insts[sc.inst].tokenReqs = @ + n]

\* the setup effect's cleanup, for every closure of the instance not yet
\* cleaned up
SetupEffectCleanup(b) ==
  LET i == b.scanner.inst IN
  [b EXCEPT !.insts[i].hasFetchedToken = FALSE,
            !.scanner.setups = 0,
            !.scanner.reqs = 0,
            !.effects = [k \in DOMAIN b.effects |->
                           IF b.effects[k].inst = i /\ b.effects[k].mounted
                           THEN Cleanup(b.effects[k]) ELSE b.effects[k]]]

\* useRef(initial).current: the initial value counts in the first render
\* only
UseRefEveryRender(current, initial) == initial

UseRef(current, initial) == IF current = NoId THEN initial ELSE current

\* a render of the mounted scanner in which Math.random() yields r: line 27
\* is evaluated again, and the setup effect (deps [stablePatientId]) runs
\* its cleanup and its body again when the identifier has changed
RenderScanner(b, r) ==
  IF b.scanner.inst = 0 THEN b
  ELSE LET id == UseRef(b.scanner.stablePatientId, r)
           b1 == [b EXCEPT !.scanner.stablePatientId = id]
       IN IF id = b.scanner.stablePatientId THEN b1
          ELSE SetupEffectBody(SetupEffectCleanup(
                 [b1 EXCEPT !.insts[b.scanner.inst].depRuns = @ + 1]))

\* a commit of a state update of the scanner: the scanner, when mounted,
\* renders
Apply(b) ==
  IF b.scanner.inst = 0
  THEN Settle(b)
  ELSE \E r \in limit.ids : Settle(RenderScanner(b, r))

\* React mounts the component: both effect bodies run; under StrictMode the
\* cleanups and the bodies run once more.
MountScanner(b, type, chatCall) ==
  LET i  == Len(b.insts) + 1
      b0 == [scanner |-> [NewScanner(i, type) EXCEPT
                            !.stablePatientId = UseRef(NoId, b.random)],
             effects |-> b.effects,
             insts   |-> Append(b.insts, NewInst(chatCall)),
             random  |-> b.random]
      b1 == PollEffectBody(SetupEffectBody(b0), type)
  IN IF strictMode
     THEN PollEffectBody(SetupEffectBody(
            PollEffectCleanup(SetupEffectCleanup(b1))), type)
     ELSE b1

\* React unmounts the component: both cleanups run, the state is dropped
UnmountScannerNoRelease(b) ==
  LET b1 == PollEffectCleanup(b)
  IN [b1 EXCEPT !.scanner = NoScanner]

UnmountScanner(b) ==
  LET b1 == PollEffectCleanup(SetupEffectCleanup(b))
  IN [b1 EXCEPT !.scanner = NoScanner]

\* App re-rendered: `visionTask.active && <LiveDiagnosticScanner .../>` with
\* a new onComplete (handleDiagnosticComplete is re-created each render)
ReconcileNoUnmount(b, nowActive, type, chatCall) ==
  LET was == b.scanner.inst # 0 IN
  IF ~was /\ nowActive THEN MountScanner(b, type, chatCall)
  ELSE IF was THEN PollEffectRerun(b, type)
  ELSE b

Reconcile(b, nowActive, type, chatCall) ==
  LET was == b.scanner.inst # 0 IN
  IF ~was /\ nowActive THEN MountScanner(b, type, chatCall)
  ELSE IF was /\ ~nowActive THEN UnmountScanner(b)
  ELSE IF was /\ nowActive THEN PollEffectRerun(b, type)
  ELSE b

\* a commit of an App render in which Math.random() yields r
Commit(nowActive, type, chatCall) ==
  IF ~nowActive
  THEN Settle(Reconcile(Bundle, nowActive, type, chatCall))
  ELSE \E r \in limit.ids :
          Settle(RenderScanner(
            Reconcile([Bundle EXCEPT !.random = r], nowActive, type, chatCall),
            r))

\* --------------------------------------------------- Application Shell
NoData == "null"                   \* diagnosticData = null
DiagData == "plr_result"           \* res.data.data of a complete poll

isInputDisabled == isProcessing \/ visionTask.active \/ isUploading

\* payload.message of POST /chat
PayloadMessageNoDefault(newUserMessage, diag) ==
  IF newUserMessage # <<>> THEN [kind |-> "text", text |-> newUserMessage]
  ELSE [kind |-> "null", text |-> <<>>]

PayloadMessage(newUserMessage, diag) ==
  IF newUserMessage # <<>> THEN [kind |-> "text", text |-> newUserMessage]
  ELSE IF diag # NoData
       THEN [kind |-> "Diagnostic data submitted", text |-> <<>>]
       ELSE [kind |-> "null", text |-> <<>>]

\* sendMessage up to its await of axios.post.  type is the visionTask.type
\* of the render whose sendMessage closure is called; fromUpload tells that
\* handleImageUpload awaits the call; duringUpload, that the call was made
\* by another caller while an upload sequence was under way.
SendMessage(userMessage, diag, imageId, type, fromUpload) ==
  LET newUserMessage == Trim(userMessage) IN
  IF newUserMessage = <<>> /\ diag = NoData /\ imageId = NoImage
  THEN UNCHANGED <<messages, isProcessing, inputValue, chatReqs>>
  ELSE
    /\ messages' =
         IF newUserMessage # <<>>
         THEN Append(messages, Turn("user", "text", newUserMessage))
         ELSE IF imageId # NoImage
              THEN Append(messages, Turn("user", "[Image Uploaded]", <<>>))
              ELSE messages
    /\ isProcessing' = TRUE
    /\ inputValue' = <<>>
    /\ chatReqs' = Append(chatReqs,
         [message |-> PayloadMessage(newUserMessage, diag),
          image_id |-> imageId,
          functional_test_results |-> diag,
          functional_test_type |-> IF diag # NoData THEN type ELSE NoType,
          fromUpload |-> fromUpload,
          duringUpload |-> isUploading /\ ~fromUpload])

\* onChange of the text input (the input is disabled while isInputDisabled)
TypeInput(t) ==
  /\ ~isInputDisabled
  /\ t # inputValue
  /\ inputValue' = t
  /\ UNCHANGED <<messages, isProcessing, isUploading, visionTask, chatReqs,
                 uploadReq, nSends, scanVars, pollReqs, timers, strictMode, limit,
                 lateOps, nPolls>>

\* the form's submit (the Send button is disabled while isInputDisabled or
\* the trimmed input is empty)
HandleSubmit ==
  /\ nSends < limit.sends
  /\ ~isInputDisabled
  /\ Trim(inputValue) # <<>> /\ ~isProcessing /\ ~visionTask.active
  /\ SendMessage(inputValue, NoData, NoImage, visionTask.type, FALSE)
  /\ nSends' = nSends + 1
  /\ UNCHANGED <<isUploading, visionTask, uploadReq, scanVars, pollReqs,
                 timers, strictMode, limit, lateOps, nPolls>>

\* a file chosen with the attach button (disabled while isInputDisabled):
\* handleImageUpload up to its await of the upload
HandleImageUpload ==
  /\ nSends < limit.sends
  /\ ~isInputDisabled
  /\ isUploading' = TRUE
  /\ uploadReq' = TRUE
  /\ nSends' = nSends + 1
  /\ UNCHANGED <<messages, inputValue, isProcessing, visionTask, chatReqs,
                 scanVars, pollReqs, timers, strictMode, limit, lateOps, nPolls>>

\* POST /upload resolves: handleImageUpload from the await on
UploadResolveNoFinally(ok, imageId) ==
  /\ uploadReq
  /\ uploadReq' = FALSE
  /\ IF ok
     THEN /\ SendMessage(<<>>, NoData, imageId, visionTask.type, TRUE)
          /\ isUploading' = (imageId # NoImage)
     ELSE /\ messages' = Append(messages,
                            Turn("assistant", "Image upload failed", <<>>))
          /\ isUploading' = isUploading
          /\ UNCHANGED <<isProcessing, inputValue, chatReqs>>
  /\ Commit(visionTask.active, visionTask.type, NoRoom)
  /\ UNCHANGED <<visionTask, nSends, pollReqs, timers, strictMode, limit, lateOps,
                 nPolls>>

UploadResolve(ok, imageId) ==
  /\ uploadReq
  /\ uploadReq' = FALSE
  /\ IF ok
     THEN /\ SendMessage(<<>>, NoData, imageId, visionTask.type, TRUE)
          /\ isUploading' = (imageId # NoImage)
     ELSE /\ messages' = Append(messages,
                            Turn("assistant", "Image upload failed", <<>>))
          /\ isUploading' = FALSE
          /\ UNCHANGED <<isProcessing, inputValue, chatReqs>>
  /\ Commit(visionTask.active, visionTask.type, NoRoom)
  /\ UNCHANGED <<visionTask, nSends, pollReqs, timers, strictMode, limit, lateOps,
                 nPolls>>

\* POST /chat resolves with a success status: sendMessage from the await on,
\* and the caller's continuation
ChatSuccess(k, active, type, callId) ==
  /\ k \in DOMAIN chatReqs
  /\ active => (scanner.inst # 0 \/ Len(insts) < limit.mounts)
  /\ chatReqs' = RemoveAt(chatReqs, k)
  /\ messages' = Append(messages, Turn("assistant", "reply", <<>>))
  /\ visionTask' = IF active
                   THEN [active |-> TRUE, type |-> TypeOrDefault(type)]
                   ELSE [active |-> FALSE, type |-> NoType]
  /\ isProcessing' = FALSE
  /\ isUploading' = IF chatReqs[k].fromUpload THEN FALSE ELSE isUploading
  /\ Commit(active, IF active THEN TypeOrDefault(type) ELSE NoType, callId)
  /\ UNCHANGED <<inputValue, uploadReq, nSends, pollReqs, timers, strictMode, limit,
                 lateOps, nPolls>>

\* POST /chat fails (network failure or non-success status)
ChatFailureSilent(k) ==
  /\ k \in DOMAIN chatReqs
  /\ chatReqs' = RemoveAt(chatReqs, k)
  /\ isProcessing' = FALSE
  /\ isUploading' = IF chatReqs[k].fromUpload THEN FALSE ELSE isUploading
  /\ Commit(visionTask.active, visionTask.type, NoRoom)
  /\ UNCHANGED <<messages, inputValue, visionTask, uploadReq, nSends, pollReqs,
                 timers, strictMode, limit, lateOps, nPolls>>

ChatFailure(k) ==
  /\ k \in DOMAIN chatReqs
  /\ chatReqs' = RemoveAt(chatReqs, k)
  /\ messages' = Append(messages, Turn("assistant", "Connection error", <<>>))
  /\ isProcessing' = FALSE
  /\ isUploading' = IF chatReqs[k].fromUpload THEN FALSE ELSE isUploading
  /\ Commit(visionTask.active, visionTask.type, NoRoom)
  /\ UNCHANGED <<inputValue, visionTask, uploadReq, nSends, pollReqs, timers,
                 strictMode, limit, lateOps, nPolls>>

\* the Abort Scan / Cancel Diagnostic button of the mounted scanner
HandleDiagnosticCancelReplace ==
  /\ scanner.inst # 0
  /\ visionTask' = [active |-> FALSE, type |-> NoType]
  /\ messages' = <<Turn("assistant", "Diagnostic scan cancelled", <<>>)>>
  /\ Commit(FALSE, NoType, NoRoom)
  /\ UNCHANGED <<inputValue, isProcessing, isUploading, chatReqs, uploadReq,
                 nSends, pollReqs, timers, strictMode, limit, lateOps, nPolls>>

HandleDiagnosticCancel ==
  /\ scanner.inst # 0
  /\ visionTask' = [active |-> FALSE, type |-> NoType]
  /\ messages' = Append(messages,
                        Turn("assistant", "Diagnostic scan cancelled", <<>>))
  /\ Commit(FALSE, NoType, NoRoom)
  /\ UNCHANGED <<inputValue, isProcessing, isUploading, chatReqs, uploadReq,
                 nSends, pollReqs, timers, strictMode, limit, lateOps, nPolls>>

\* a pending timer of the poll callback fires: onComplete(res.data.data),
\* which is the handleDiagnosticComplete of the render the poll effect ran in
TimerFire(k) ==
  /\ k \in DOMAIN timers
  /\ timers' = RemoveAt(timers, k)
  /\ visionTask' = [active |-> FALSE, type |-> NoType]
  /\ SendMessage(<<>>, DiagData, NoImage, timers[k].capType, FALSE)
  /\ Apply([Reconcile(Bundle, FALSE, NoType, NoRoom)
              EXCEPT !.insts[timers[k].inst].completes = @ + 1])
  /\ lateOps' = IF scanner.inst # timers[k].inst
                THEN lateOps \cup {"onComplete"} ELSE lateOps
  /\ UNCHANGED <<isUploading, uploadReq, nSends, pollReqs, strictMode, limit, nPolls>>

\* ------------------------------------------- Diagnostic Session Controller
\* GET /generate-video-token resolves: setupStream from the await on, up to
\* its await of join()
TokenSuccess(k, callId) ==
  /\ k \in DOMAIN effects
  /\ effects[k].pc = "fetch"
  /\ LET e == effects[k] IN
     IF ~e.mounted
     THEN Apply([Bundle EXCEPT !.effects[k].pc = "done"])
     ELSE Apply(PollEffectRerun(
            [Bundle EXCEPT !.scanner.currentCallId = callId,
                           !.scanner.setupState = "Connecting",
                           !.effects[k] = [e EXCEPT !.myClient = TRUE,
                                                    !.connected = TRUE,
                                                    !.myCall = TRUE,
                                                    !.room = callId,
                                                    !.pc = "join"]],
            scanner.capType))
  /\ UNCHANGED <<appVars, pollReqs, timers, strictMode, limit, lateOps, nPolls>>

\* the catch block of setupStream
SetupFailed(k) ==
  Apply([Bundle EXCEPT !.effects[k].pc = "done",
                       !.effects[k].err = effects[k].pc,
                       !.scanner.error = IF effects[k].mounted THEN TRUE ELSE @])

TokenFailureRetry(k) ==
  /\ k \in DOMAIN effects
  /\ effects[k].pc = "fetch"
  /\ insts[effects[k].inst].tokenReqs < 3
  /\ Apply([Bundle EXCEPT !.insts[effects[k].inst].tokenReqs = @ + 1])
  /\ UNCHANGED <<appVars, pollReqs, timers, strictMode, limit, lateOps, nPolls>>

TokenFailure(k) ==
  /\ k \in DOMAIN effects
  /\ effects[k].pc = "fetch"
  /\ SetupFailed(k)
  /\ UNCHANGED <<appVars, pollReqs, timers, strictMode, limit, lateOps, nPolls>>

\* myCall.join() resolves; camera.enable() is called next.  A join that
\* raced with leave() may or may not leave the client in the room (sticks).
JoinSuccess(k, sticks) ==
  /\ k \in DOMAIN effects
  /\ effects[k].pc = "join"
  /\ ~effects[k].raced => sticks
  /\ Apply([Bundle EXCEPT !.effects[k].joined = sticks,
                          !.effects[k].raced = FALSE,
                          !.effects[k].pc = "enable"])
  /\ lateOps' = IF ~effects[k].mounted
                THEN lateOps \cup {"camera.enable"} ELSE lateOps
  /\ UNCHANGED <<appVars, pollReqs, timers, strictMode, limit, nPolls>>

JoinFailure(k) ==
  /\ k \in DOMAIN effects
  /\ effects[k].pc = "join"
  /\ SetupFailed(k)
  /\ UNCHANGED <<appVars, pollReqs, timers, strictMode, limit, lateOps, nPolls>>

\* myCall.camera.enable() resolves.  An enable that raced with disable() may
\* or may not leave the camera on (sticks).
EnableSuccess(k, sticks) ==
  /\ k \in DOMAIN effects
  /\ effects[k].pc = "enable"
  /\ ~effects[k].raced => sticks
  /\ LET e  == effects[k]
         b1 == [Bundle EXCEPT !.effects[k].camera = sticks,
                              !.effects[k].raced = FALSE,
                              !.effects[k].pc = "done"]
     IN IF e.mounted
        THEN Apply(PollEffectRerun(
               [b1 EXCEPT !.scanner.client = TRUE,
                          !.scanner.call = TRUE,
                          !.scanner.setupState = "Tracking active"],
               scanner.capType))
        ELSE Apply(b1)
  /\ UNCHANGED <<appVars, pollReqs, timers, strictMode, limit, lateOps, nPolls>>

EnableFailure(k) ==
  /\ k \in DOMAIN effects
  /\ effects[k].pc = "enable"
  /\ SetupFailed(k)
  /\ UNCHANGED <<appVars, pollReqs, timers, strictMode, limit, lateOps, nPolls>>

\* the interval fires: the callback up to its await of the GET
PollTick ==
  /\ scanner.inst # 0
  /\ scanner.pollActive
  /\ nPolls < limit.polls
  /\ nPolls' = nPolls + 1
  /\ pollReqs' = Append(pollReqs, [inst |-> scanner.inst,
                                   interval |-> scanner.pollInterval,
                                   capType |-> scanner.capType,
                                   startType |-> scanner.startType])
  /\ insts' = [insts EXCEPT ![scanner.inst].pollAfterComplete =
                               @ \/ insts[scanner.inst].completeSeen,
                            ![scanner.inst].pollAfterFailure =
                               @ \/ insts[scanner.inst].pollFailed]
  /\ UNCHANGED <<appVars, scanner, effects, finished, timers, strictMode, limit,
                 lateOps>>

\* GET /diagnostic-results resolves with status 'complete'
PollComplete(k) ==
  /\ k \in DOMAIN pollReqs
  /\ LET p == pollReqs[k]
         here == scanner.inst = p.inst
     IN /\ scanner' =
             IF here
             THEN [scanner EXCEPT
                     !.pollActive =
                        IF scanner.pollInterval = p.interval THEN FALSE ELSE @,
                     !.setupState = "Analysis complete"]
             ELSE scanner
        /\ timers' = Append(timers, [inst |-> p.inst, capType |-> p.capType,
                                     startType |-> p.startType])
        /\ insts' = [insts EXCEPT ![p.inst].completeSeen = TRUE]
  /\ pollReqs' = RemoveAt(pollReqs, k)
  /\ UNCHANGED <<appVars, effects, finished, strictMode, limit, lateOps, nPolls>>

\* GET /diagnostic-results resolves with another status
PollOther(k) ==
  /\ k \in DOMAIN pollReqs
  /\ pollReqs' = RemoveAt(pollReqs, k)
  /\ UNCHANGED <<appVars, scanVars, timers, strictMode, limit, lateOps, nPolls>>

\* GET /diagnostic-results fails: the catch of the poll callback logs it
PollFailureStopsPolling(k) ==
  /\ k \in DOMAIN pollReqs
  /\ pollReqs' = RemoveAt(pollReqs, k)
  /\ insts' = [insts EXCEPT ![pollReqs[k].inst].pollFailed = TRUE]
  /\ scanner' = IF scanner.inst = pollReqs[k].inst
                THEN [scanner EXCEPT !.pollActive = FALSE, !.error = TRUE]
                ELSE scanner
  /\ UNCHANGED <<appVars, effects, finished, timers, strictMode,
                 limit, lateOps, nPolls>>

PollFailure(k) ==
  /\ k \in DOMAIN pollReqs
  /\ pollReqs' = RemoveAt(pollReqs, k)
  /\ insts' = [insts EXCEPT ![pollReqs[k].inst].pollFailed = TRUE]
  /\ UNCHANGED <<appVars, scanner, effects, finished, timers, strictMode,
                 limit, lateOps, nPolls>>

\* the host invokes the setup effect body once more on the mounted
\* instance, with no cleanup in between
ReinvokeSetup ==
  /\ scanner.inst # 0
  /\ scanner.setups < 1 + MaxReinvoke
  /\ Apply(SetupEffectBody(Bundle))
  /\ UNCHANGED <<appVars, pollReqs, timers, strictMode, limit, lateOps, nPolls>>

\* ------------------------------------------------------------ specification
\* the page right after App is constructed
Fresh ==
  /\ messages = <<>>
  /\ inputValue = <<>>
  /\ isProcessing = FALSE
  /\ isUploading = FALSE
  /\ visionTask = [active |-> FALSE, type |-> NoType]
  /\ chatReqs = <<>>
  /\ uploadReq = FALSE
  /\ scanner = NoScanner
  /\ effects = <<>>
  /\ finished = {}
  /\ pollReqs = <<>>
  /\ timers = <<>>
  /\ insts = <<>>
  /\ lateOps = {}
  /\ nSends = 0
  /\ nPolls = 0

Init ==
  /\ Fresh
  /\ strictMode \in BOOLEAN
  /\ limit = [sends |-> SmallSends, mounts |-> SmallMounts,
              polls |-> SmallPolls, ids |-> OneId, rooms |-> RoomIds]

\* a host without StrictMode, for two ticks of the polling interval
InitPoll ==
  /\ Fresh
  /\ strictMode = FALSE
  /\ limit = [sends |-> SmallSends, mounts |-> SmallMounts,
              polls |-> MidPolls, ids |-> OneId, rooms |-> RoomIds]

\* as Init, with a Math.random() that yields different values and a backend
\* whose token response names the room of the chat response
InitIdent ==
  /\ Fresh
  /\ strictMode \in BOOLEAN
  /\ limit = [sends |-> SmallSends, mounts |-> SmallMounts,
              polls |-> SmallPolls, ids |-> RandomIds,
              rooms |-> ChatRoomIds]

InitDeep ==
  /\ Fresh
  /\ strictMode = FALSE
  /\ limit = [sends |-> MaxSends, mounts |-> MaxMounts, polls |-> MaxPolls,
              ids |-> OneId, rooms |-> RoomIds]

Next ==
  \/ \E t \in TypedTexts : TypeInput(t)
  \/ HandleSubmit
  \/ HandleImageUpload
  \/ \E ok \in BOOLEAN, i \in ImageIds : UploadResolve(ok, i)
  \/ \E k \in DOMAIN chatReqs, a \in BOOLEAN, t \in TestTypes,
        c \in ChatRoomIds : ChatSuccess(k, a, t, c)
  \/ \E k \in DOMAIN chatReqs : ChatFailure(k)
  \/ HandleDiagnosticCancel
  \/ \E k \in DOMAIN timers : TimerFire(k)
  \/ \E k \in DOMAIN effects, c \in limit.rooms : TokenSuccess(k, c)
  \/ \E k \in DOMAIN effects : TokenFailure(k)
  \/ \E k \in DOMAIN effects, s \in BOOLEAN : JoinSuccess(k, s)
  \/ \E k \in DOMAIN effects : JoinFailure(k)
  \/ \E k \in DOMAIN effects, s \in BOOLEAN : EnableSuccess(k, s)
  \/ \E k \in DOMAIN effects : EnableFailure(k)
  \/ PollTick
  \/ \E k \in DOMAIN pollReqs : PollComplete(k)
  \/ \E k \in DOMAIN pollReqs : PollOther(k)
  \/ \E k \in DOMAIN pollReqs : PollFailure(k)

\* every host (with and without StrictMode), to the small bounds
Spec == Init /\ [][Next]_vars

NextReinvoke == Next \/ ReinvokeSetup

\* Spec with a host that may invoke the setup effect again without cleanup
SpecReinvoke == Init /\ [][NextReinvoke]_vars

\* a host without StrictMode, to the larger bounds
SpecDeep == InitDeep /\ [][Next]_vars

\* a host without StrictMode and a polling interval that ticks twice
SpecPoll == InitPoll /\ [][Next]_vars

\* Spec with generated patient identifiers that differ from render to render
SpecIdent == InitIdent /\ [][Next]_vars

\* ------------------------------------------------------------------ claims
\* C1: once a scanner instance is unmounted, nothing that resolves later for
\* it has an effect; in particular onComplete is never invoked for an
\* instance after its unmount.
C1_NoCompletionAfterUnmount == "onComplete" \notin lateOps

\* C2: after a cancel at any point, once the instance's calls have all
\* resolved, it holds no room membership and no enabled camera.
C2_CancelReleasesAll ==
  \A f \in finished : ~f.joined /\ ~f.camera

\* C3: when camera.enable() fails after join() succeeded, the error panel is
\* shown only with the room left, the client disconnected and the camera off.
C3_ErrorHoldsNothing ==
  \A k \in DOMAIN effects :
     (effects[k].inst = scanner.inst /\ scanner.error
        /\ effects[k].err = "enable")
     => (~effects[k].joined /\ ~effects[k].connected /\ ~effects[k].camera)

\* C4: one mount issues at most one GET /generate-video-token, also when the
\* host runs setup, teardown, setup for it.
C4_OneTokenRequestPerMount ==
  \A i \in DOMAIN insts : insts[i].tokenReqs <= 1

\* C5: setup invocations that follow each other with no teardown in between
\* issue exactly one credential request.
C5_OneRequestPerSetupRun ==
  scanner.setups >= 1 => scanner.reqs = 1

\* C5 witness: setup was invoked twice with no teardown in between
C5_SetupInvokedTwice ==
  scanner.setups = 2 /\ scanner.reqs = 1 /\ insts[scanner.inst].hasFetchedToken

\* C6: onComplete is invoked at most once for one scanner instance.
C6_CompleteAtMostOnce ==
  \A i \in DOMAIN insts : insts[i].completes <= 1

\* C7: once an instance has processed a 'complete' poll response, it issues
\* no further GET /diagnostic-results.
C7_NoPollAfterComplete ==
  \A i \in DOMAIN insts : ~insts[i].pollAfterComplete

\* C8: the room a scanner joins is the call_id of the chat response that
\* activated it.
C8_JoinsChatRoom ==
  \A k \in DOMAIN effects :
     effects[k].myCall => effects[k].room = insts[effects[k].inst].chatCallId

\* what a closure's cleanup invoked, against what the closure had acquired
ReleasedOnce(e) ==
  /\ e.nDisable <= 1 /\ e.nLeave <= 1 /\ e.nDisconnect <= 1
  /\ ~e.myCall => (e.nDisable = 0 /\ e.nLeave = 0)
  /\ ~e.myClient => e.nDisconnect = 0

\* C9: the teardown invokes each release at most once per acquired resource
\* and none when nothing was acquired, and leaves the latch reset.
C9_TeardownOnce ==
  /\ \A k \in DOMAIN effects : ReleasedOnce(effects[k])
  /\ \A f \in finished : ReleasedOnce(f)
  /\ \A i \in DOMAIN insts :
       /\ insts[i].clearsByCleanup <= insts[i].intervalsSet
       /\ i # scanner.inst => ~insts[i].hasFetchedToken

\* C9 witness: an unmounted page on which one closure was torn down with a
\* joined call and a client, and one with nothing acquired
C9_TornDownBoth ==
  /\ scanner.inst = 0
  /\ \E f \in finished :
       f.myCall /\ f.myClient
       /\ f.nDisable = 1 /\ f.nLeave = 1 /\ f.nDisconnect = 1
  /\ \E g \in finished :
       ~g.myCall /\ ~g.myClient
       /\ g.nDisable = 0 /\ g.nLeave = 0 /\ g.nDisconnect = 0
  /\ \E i \in DOMAIN insts : insts[i].clearsByCleanup = 1

\* C10: while an upload sequence is under way no other chat send is
\* initiated, and a successful upload of image I is followed by exactly one
\* POST /chat with image_id = I and message = null.
C10_UploadNotInterleaved ==
  /\ \A k \in DOMAIN chatReqs : ~chatReqs[k].duringUpload
  /\ (isUploading /\ ~uploadReq) =>
       Cardinality({k \in DOMAIN chatReqs :
                      /\ chatReqs[k].fromUpload
                      /\ chatReqs[k].image_id # NoImage
                      /\ chatReqs[k].message.kind = "null"}) = 1

\* a step that issues a POST /chat carrying functional_test_results
DiagSendIssued ==
  /\ Len(chatReqs') = Len(chatReqs) + 1
  /\ chatReqs'[Len(chatReqs')].functional_test_results # NoData

\* C11 as stated: every diagnostic-result send appends a user-role turn to
\* the conversation before its POST /chat is issued.
C11_DiagSendAppendsUserTurn ==
  [][DiagSendIssued =>
       /\ Len(messages') = Len(messages) + 1
       /\ messages'[Len(messages')].role = "user"]_vars

\* C11 amended: a diagnostic-result send carries the synthetic user message
\* "Diagnostic data submitted" in its payload (no image) and appends no turn
\* to the conversation.
C11_DiagSendSyntheticPayload ==
  [][DiagSendIssued =>
       /\ messages' = messages
       /\ chatReqs'[Len(chatReqs')].message.kind = "Diagnostic data submitted"
       /\ chatReqs'[Len(chatReqs')].image_id = NoImage]_vars

\* C11 witness: a diagnostic-result send is in flight
C11_DiagSendInFlight ==
  \E k \in DOMAIN chatReqs :
     /\ chatReqs[k].functional_test_results = DiagData
     /\ chatReqs[k].message.kind = "Diagnostic data submitted"


\* a step in which a POST /chat resolves (its reply or its failure arrives)
ChatResolved == Len(chatReqs') = Len(chatReqs) - 1

\* C12: every POST /chat ends in exactly one assistant turn appended to the
\* unchanged earlier turns (the reply or the connection error) and in
\* isProcessing = false; the trimmed user turn of a plain text send is in the
\* conversation while its request is in flight, so it precedes that turn.
C12_ChatEndsInOneAssistantTurn ==
  /\ [](\A k \in DOMAIN chatReqs :
          chatReqs[k].message.kind = "text" =>
            /\ Trim(chatReqs[k].message.text) = chatReqs[k].message.text
            /\ \E j \in DOMAIN messages :
                 messages[j] = Turn("user", "text", chatReqs[k].message.text))
  /\ [][ChatResolved =>
          /\ Len(messages') = Len(messages) + 1
          /\ SubSeq(messages', 1, Len(messages)) = messages
          /\ messages'[Len(messages')].role = "assistant"
          /\ messages'[Len(messages')].kind \in {"reply", "Connection error"}
          /\ ~isProcessing']_vars

\* C12 witness: a plain text send has failed
C12_TextSendFailed ==
  /\ Len(messages) = 2
  /\ messages[1].role = "user" /\ messages[1].text = <<"h">>
  /\ messages[2] = Turn("assistant", "Connection error", <<>>)
  /\ ~isProcessing /\ chatReqs = <<>>


\* C13: the conversation is append-only and order-preserving: in every step
\* the previous sequence of turns is a prefix of the next one.
C13_AppendOnly ==
  [][/\ Len(messages') >= Len(messages)
     /\ SubSeq(messages', 1, Len(messages)) = messages]_vars

\* C13 witness: a user turn, the reply that starts a scan, then the turn of
\* the scan's cancellation
C13_ThreeTurnsInOrder ==
  /\ Len(messages) = 3
  /\ messages[1].role = "user"
  /\ messages[2].kind = "reply"
  /\ messages[3].kind = "Diagnostic scan cancelled"


\* a step that appends the upload-failure turn
UploadFailureTurnAppended ==
  /\ Len(messages') = Len(messages) + 1
  /\ messages'[Len(messages')].kind = "Image upload failed"

\* C14: a failed POST /upload issues no POST /chat, appends exactly the
\* upload-failure turn and resets isUploading; a failed POST /chat of an
\* upload sequence appends exactly the connection-error turn and resets
\* isUploading; the upload-failure turn is appended by nothing but the
\* resolution of an upload.
C14_UploadAndChatFailuresApart ==
  /\ [][(\E i \in ImageIds : UploadResolve(FALSE, i)) =>
          /\ chatReqs' = chatReqs
          /\ messages' = Append(messages,
                           Turn("assistant", "Image upload failed", <<>>))
          /\ ~isUploading']_vars
  /\ [][(\E k \in DOMAIN chatReqs : chatReqs[k].fromUpload /\ ChatFailure(k)) =>
          /\ messages' = Append(messages,
                           Turn("assistant", "Connection error", <<>>))
          /\ ~isUploading']_vars
  /\ [][UploadFailureTurnAppended =>
          (uploadReq /\ ~uploadReq' /\ chatReqs' = chatReqs)]_vars

\* C14 witness: the upload succeeded and its POST /chat failed
C14_ChatFailedAfterUpload ==
  /\ messages = <<Turn("user", "[Image Uploaded]", <<>>),
                  Turn("assistant", "Connection error", <<>>)>>
  /\ ~isUploading /\ ~uploadReq /\ chatReqs = <<>>


\* C15: the scanner is mounted exactly when visionTask.active, type is null
\* whenever active is false, active turns true only on a chat response with
\* video_stream_active = true, and turns false only on a diagnostic
\* completion, a cancellation or a chat response without that signal.
C15_VisionTaskTransitions ==
  /\ []((scanner.inst # 0) <=> visionTask.active)
  /\ [](~visionTask.active => visionTask.type = NoType)
  /\ [][(~visionTask.active /\ visionTask'.active) =>
          \E k \in DOMAIN chatReqs, t \in TestTypes, c \in ChatRoomIds :
             ChatSuccess(k, TRUE, t, c)]_vars
  /\ [][(visionTask.active /\ ~visionTask'.active) =>
          \/ \E k \in DOMAIN timers : TimerFire(k)
          \/ HandleDiagnosticCancel
          \/ \E k \in DOMAIN chatReqs, t \in TestTypes, c \in ChatRoomIds :
                ChatSuccess(k, FALSE, t, c)]_vars

\* C15 witness: a scan was started by the backend's signal and ended by its
\* completion
C15_ActivatedThenCompleted ==
  /\ ~visionTask.active /\ scanner.inst = 0
  /\ \E i \in DOMAIN insts : insts[i].completes = 1


\* a closure that was cleaned up after it had created its call invoked
\* leave and camera.disable exactly once each
LeftOnce(e) == e.myCall => (e.nLeave = 1 /\ e.nDisable = 1)

\* C16: a cancel while the scanner is connecting unmounts it, invokes leave
\* and camera.disable exactly once each, appends exactly the cancellation
\* turn, issues no request and leaves isProcessing and isUploading alone.
C16_CancelWhileConnecting ==
  /\ [](/\ \A k \in DOMAIN effects :
             ~effects[k].mounted => LeftOnce(effects[k])
        /\ \A f \in finished : LeftOnce(f))
  /\ [][(/\ HandleDiagnosticCancel
         /\ scanner.setupState = "Connecting" /\ ~scanner.error) =>
          /\ scanner'.inst = 0 /\ ~visionTask'.active
          /\ \E j \in DOMAIN effects' :
               /\ effects'[j].inst = scanner.inst
               /\ ~effects'[j].mounted /\ effects'[j].myCall
               /\ effects'[j].nLeave = 1 /\ effects'[j].nDisable = 1
          /\ \A j \in DOMAIN effects' : ~effects'[j].mounted
          /\ messages' = Append(messages,
                Turn("assistant", "Diagnostic scan cancelled", <<>>))
          /\ chatReqs' = chatReqs /\ uploadReq' = uploadReq
          /\ isProcessing' = isProcessing /\ isUploading' = isUploading]_vars

\* C16 witness: the scan was cancelled while join() or camera.enable() was
\* in flight
C16_CancelledMidConnect ==
  /\ scanner.inst = 0
  /\ messages # <<>>
  /\ messages[Len(messages)].kind = "Diagnostic scan cancelled"
  /\ \E k \in DOMAIN effects :
       /\ ~effects[k].mounted /\ effects[k].pc \in {"join", "enable"}
       /\ effects[k].nLeave = 1 /\ effects[k].nDisable = 1


\* C17: at most one GET /diagnostic-results of one scanner instance is
\* outstanding at any time.
C17_PollsSerialized ==
  \A i \in DOMAIN insts :
     Cardinality({k \in DOMAIN pollReqs : pollReqs[k].inst = i}) <= 1


\* C18: the generated patient identifier is chosen once per mount: a render
\* never changes it, every credential request of the mount carries it, and
\* the setup effect is never re-run because of it.
C18_StablePatientId ==
  /\ [](scanner.inst # 0 => scanner.stablePatientId \in RandomIds)
  /\ [](\A k \in DOMAIN effects :
          (effects[k].inst = scanner.inst /\ effects[k].user_id # NoId)
          => effects[k].user_id = scanner.stablePatientId)
  /\ [](\A k, j \in DOMAIN effects :
          (/\ effects[k].inst = effects[j].inst
           /\ effects[k].user_id # NoId /\ effects[j].user_id # NoId)
          => effects[k].user_id = effects[j].user_id)
  /\ [](\A i \in DOMAIN insts : insts[i].depRuns = 0)
  /\ [][(scanner.inst # 0 /\ scanner'.inst = scanner.inst)
          => scanner'.stablePatientId = scanner.stablePatientId]_vars

\* C18 witness: two credential requests of one mount (StrictMode) were
\* issued with the same generated identifier, and the scanner has rendered
\* again since (the first request has resolved)
C18_TwoRequestsOneId ==
  /\ strictMode /\ scanner.inst # 0
  /\ scanner.stablePatientId = "patient_2"
  /\ scanner.setupState = "Connecting"
  /\ \E k, j \in DOMAIN effects :
       /\ k # j
       /\ effects[k].inst = scanner.inst /\ effects[j].inst = scanner.inst
       /\ effects[k].user_id = "patient_2" /\ effects[j].user_id = "patient_2"


\* no network call is outstanding
Quiescent ==
  /\ chatReqs = <<>> /\ ~uploadReq /\ pollReqs = <<>>
  /\ \A k \in DOMAIN effects : effects[k].pc = "done"

\* the calls of the setup path that are in flight
SetupCallsInFlight(es) ==
  Cardinality({k \in DOMAIN es : es[k].pc \in {"fetch", "join", "enable"}})

\* a step that issues no request
NoNewRequest ==
  /\ Len(chatReqs') <= Len(chatReqs)
  /\ uploadReq' => uploadReq
  /\ Len(pollReqs') <= Len(pollReqs)
  /\ Len(insts') = Len(insts)
  /\ \A i \in DOMAIN insts : insts'[i].tokenReqs = insts[i].tokenReqs
  /\ SetupCallsInFlight(effects') <= SetupCallsInFlight(effects)

\* a step in which a call of the shell or of the setup path fails
ShellOrSetupFailure ==
  \/ \E k \in DOMAIN chatReqs : ChatFailure(k)
  \/ \E i \in ImageIds : UploadResolve(FALSE, i)
  \/ \E k \in DOMAIN effects : TokenFailure(k)
  \/ \E k \in DOMAIN effects : JoinFailure(k)
  \/ \E k \in DOMAIN effects : EnableFailure(k)

\* with no call outstanding the chat input is enabled, or the panel is shown
\* and its cancel control leads back to the enabled input
NoFailureTerminal ==
  /\ [](Quiescent =>
          \/ ~isInputDisabled
          \/ scanner.inst # 0 /\ ~isProcessing /\ ~isUploading)
  /\ [][(Quiescent /\ HandleDiagnosticCancel) => ~isInputDisabled']_vars

\* C19 as stated: no failure is terminal, and after any failure, a failed
\* poll included, no request is issued again without a user action.
C19_NothingRetried ==
  /\ NoFailureTerminal
  /\ [][(ShellOrSetupFailure \/ \E k \in DOMAIN pollReqs : PollFailure(k))
          => NoNewRequest]_vars
  /\ [](\A i \in DOMAIN insts : ~insts[i].pollAfterFailure)

\* C19 amended: no failure is terminal; the step of a failed chat, upload,
\* credential fetch, join, camera enable or poll issues no request; a failed
\* poll does not stop the polling interval.
C19_NoRetryButPolling ==
  /\ NoFailureTerminal
  /\ [][(ShellOrSetupFailure \/ \E k \in DOMAIN pollReqs : PollFailure(k))
          => NoNewRequest]_vars
  /\ [][(\E k \in DOMAIN pollReqs : PollFailure(k)) =>
          (scanner' = scanner /\ timers' = timers)]_vars

\* C19 witness: after a failed poll the interval has issued the next GET
C19_PolledAfterFailure ==
  \E i \in DOMAIN insts :
     /\ insts[i].pollFailed /\ insts[i].pollAfterFailure
     /\ \E k \in DOMAIN pollReqs : pollReqs[k].inst = i


\* C20: isProcessing is true in every state in which a POST /chat issued by
\* sendMessage has not resolved yet (so the chat input is disabled).
C20_ProcessingWhileChatOutstanding ==
  chatReqs # <<>> => isProcessing


\* C21: the POST /chat that forwards diagnostic results carries the type the
\* vision task had when the completing scan was started, and never null.
C21_DiagTypeIsStartType ==
  [][DiagSendIssued =>
       \E k \in DOMAIN timers :
          /\ timers' = RemoveAt(timers, k)
          /\ chatReqs'[Len(chatReqs')].functional_test_type = timers[k].startType
          /\ chatReqs'[Len(chatReqs')].functional_test_type # NoType]_vars


\* C22: a failed poll or a response with a status other than 'complete'
\* changes nothing: the interval keeps running, no error is set, neither
\* onComplete nor onCancel is invoked; the interval of a connected scanner
\* runs until a 'complete' response or the unmount.
C22_PollFailureChangesNothing ==
  /\ [][(\E k \in DOMAIN pollReqs : PollFailure(k) \/ PollOther(k)) =>
          /\ scanner' = scanner
          /\ timers' = timers
          /\ effects' = effects /\ finished' = finished
          /\ messages' = messages /\ visionTask' = visionTask
          /\ chatReqs' = chatReqs /\ isProcessing' = isProcessing]_vars
  /\ []((/\ scanner.inst # 0 /\ scanner.client /\ scanner.call
         /\ ~insts[scanner.inst].completeSeen)
        => (scanner.pollActive /\ ~scanner.error))

\* C22 witness: a poll of the mounted scanner has failed, the interval has
\* ticked again and nothing else has happened to the scanner
C22_StillPollingAfterFailure ==
  /\ scanner.inst # 0 /\ scanner.pollActive /\ ~scanner.error
  /\ scanner.setupState = "Tracking active"
  /\ insts[scanner.inst].pollFailed /\ insts[scanner.inst].pollAfterFailure
  /\ ~insts[scanner.inst].completeSeen
  /\ timers = <<>> /\ visionTask.active


====
